---- MODULE Spec2Model ----
(***************************************************************************)
(* Batch tagging orchestrator of src/tagging/pool_tagger.py (PoolTagger)   *)
(* against the pool store dim_pool, together with the two collaborators    *)
(* that write the stores it reads: the Freddie issuance parser (dim_pool)  *)
(* and the FRED ingestor (fred_observation).                               *)
(*                                                                         *)
(* Units: interest rates and coupons are held as integers in hundredths of *)
(* a percent (6.5 % is 650); Scale converts.  A nullable value is the      *)
(* empty tuple (NULL / None) or a one-element tuple holding the value.     *)
(***************************************************************************)
EXTENDS Integers, Sequences, FiniteSets, TLC

\* ---------------------------------------------------------------- bounds
MaxPools    == 3      \* pool identifiers 1..MaxPools
MaxBatch    == 2      \* batch_size ranges over 1..MaxBatch
MaxLimit    == 2      \* limit ranges over None and 1..MaxLimit
MaxCalls    == 2      \* invocations of tag_all_pools per tagger
MaxFailures == 1      \* persistence exceptions injected
MaxIngest   == 1      \* issuance-parser upserts into dim_pool
MaxDates    == 2      \* observation dates 1..MaxDates

\* ------------------------------------------------------ program constants
Scale               == 100     \* hundredths of a percent per percent
FallbackRate        == 650     \* "return 6.5  # Default fallback"
CtorDefaultRate     == 650     \* current_mortgage_rate: float = 6.5
ConformingLimit     == 766550  \* conforming_limit: float = 766550

\* ------------------------------------------------------------- data sets
None      == <<>>
Some(x)   == <<x>>
Val(o)    == o[1]

PoolIds    == 1..MaxPools
Taggers    == {1, 2}
SingleWriter == {1}
WacValues  == {None, Some(600), Some(700)}
RateValues == {None, Some(700)}
CallerRates == {None, Some(700)}
Dates      == 1..MaxDates
BatchSizes == 1..MaxBatch
Limits     == {None} \cup {Some(l) : l \in 1..MaxLimit}

Min(a, b) == IF a <= b THEN a ELSE b
Max(a, b) == IF a >= b THEN a ELSE b

VARIABLES
    dim_pool,            \* the pool store: pool_id -> row
    fred_observation,    \* relation written by FREDIngestor.insert_observations
    fred_observations,   \* relation named by the tagger's rate query
    clock,               \* database time, source of NOW()
    pc,                  \* position of each tagger inside tag_all_pools
    supplied,            \* constructor argument current_mortgage_rate (None: defaulted)
    current_rate,        \* self.current_rate
    batch_size, limit,   \* arguments of the current call
    total, processed, offset, rows, updates,   \* locals of tag_all_pools
    txn, txn_now,        \* open transaction of _batch_update_tags
    ret,                 \* value returned by the last completed call
    failures, ingests,   \* counters bounding the environment
    hist,                \* history of each tagger's calls (observation only)
    pool_data,           \* argument of a direct generate_all_tags(pool) call
    market_rate,         \* self.current_rate of the tagger so called
    tag_set              \* what that call returned (None: not called yet)

vars == << dim_pool, fred_observation, fred_observations, clock, pc, supplied,
           current_rate, batch_size, limit, total, processed, offset, rows,
           updates, txn, txn_now, ret, failures, ingests, hist,
           pool_data, market_rate, tag_set >>

callVars   == << pool_data, market_rate, tag_set >>
storeVars  == << dim_pool, fred_observation, fred_observations, clock >>
localVars  == << total, processed, offset, rows, updates, txn, txn_now >>

\* ------------------------------------------------------------ pool store
\* a row of the pool store.  factor is the pool's paydown factor as the
\* issuance parser stores it (fact_pool_month.factor, written in the
\* transaction of the dim_pool upsert); product_type, which no tag reads, is
\* left out.
PoolRow(loan, coupon, fac) ==
    [present |-> TRUE, avg_loan_size |-> loan, avg_fico |-> None,
     avg_ltv |-> None, wala |-> None, wac |-> coupon, top_state |-> None,
     top_state_pct |-> None, servicer_name |-> None, factor |-> fac,
     tags_updated_at |-> None, tags |-> None]

AbsentPool == [PoolRow(None, None, None) EXCEPT !.present = FALSE]

Untagged(store) ==
    {p \in PoolIds : store[p].present /\ store[p].tags_updated_at = None}

RECURSIVE OrderByPoolId(_)
OrderByPoolId(S) ==
    IF S = {} THEN <<>>
    ELSE LET m == CHOOSE x \in S : \A y \in S : x <= y
         IN  <<m>> \o OrderByPoolId(S \ {m})

\* SELECT COUNT(*) FROM dim_pool WHERE tags_updated_at IS NULL,
\* wrapped in LEAST(limit, ...) when limit is truthy
CountQuery(store, lim) ==
    LET n == Cardinality(Untagged(store))
    IN  IF lim # None /\ Val(lim) # 0 THEN Min(Val(lim), n) ELSE n

\* SELECT ... WHERE tags_updated_at IS NULL ORDER BY pool_id LIMIT b OFFSET off
FetchRows(store, b, off) ==
    LET ids == OrderByPoolId(Untagged(store))
        n   == Max(0, Min(b, Len(ids) - off))
    IN  [i \in 1..n |->
           LET row == store[ids[off + i]]
           IN  [pool_id |-> ids[off + i], avg_loan_size |-> row.avg_loan_size,
                avg_fico |-> row.avg_fico, avg_ltv |-> row.avg_ltv,
                wala |-> row.wala, wac |-> row.wac, top_state |-> row.top_state,
                top_state_pct |-> row.top_state_pct,
                servicer_name |-> row.servicer_name]]

\* ------------------------------------------------------------ rate lookup
\* SELECT value ... ORDER BY observation_date DESC LIMIT 1, fetchone()
LatestRow(rel) ==
    IF rel = {} THEN None
    ELSE Some(CHOOSE o \in rel : \A q \in rel : q.date <= o.date)

\* outcome of the lookup: what the try block of _get_current_mortgage_rate meets
LookupOutcome(src) ==
    IF ~src.available THEN "exception"
    ELSE IF LatestRow(src.rows) = None THEN "no_row"
    ELSE IF Val(LatestRow(src.rows)).value = None THEN "null_value"
    ELSE "value"

get_current_mortgage_rate(src) ==
    IF ~src.available THEN FallbackRate                 \* except Exception
    ELSE LET result == LatestRow(src.rows)
         IN  IF result # None
             THEN IF Val(result).value = None
                  THEN FallbackRate                     \* float(None) raises, caught
                  ELSE Val(Val(result).value)
             ELSE FallbackRate

\* ------------------------------------------------------ tagging constants
\* A string the code searches or re-cases is a sequence of its characters.
HIGH_FRICTION_STATES == {"NY", "NJ", "FL", "IL", "CT", "MA", "PA", "OH"}
LOW_FRICTION_STATES  == {"CA", "TX", "AZ", "CO", "WA", "GA", "NV", "OR"}

FAST_SERVICERS ==
    { <<"r", "o", "c", "k", "e", "t">>,
      <<"q", "u", "i", "c", "k", "e", "n">>,
      <<"b", "e", "t", "t", "e", "r">>,
      <<"l", "o", "a", "n", "d", "e", "p", "o", "t">>,
      <<"u", "w", "m">>,
      <<"u", "n", "i", "t", "e", "d", " ", "w", "h", "o", "l", "e", "s", "a", "l", "e">>,
      <<"p", "e", "n", "n", "y", "m", "a", "c">>,
      <<"f", "r", "e", "e", "d", "o", "m", " ", "m", "o", "r", "t", "g", "a", "g", "e">> }

SLOW_SERVICERS ==
    { <<"w", "e", "l", "l", "s", " ", "f", "a", "r", "g", "o">>,
      <<"c", "h", "a", "s", "e">>,
      <<"j", "p", "m", "o", "r", "g", "a", "n">>,
      <<"b", "a", "n", "k", " ", "o", "f", " ", "a", "m", "e", "r", "i", "c", "a">>,
      <<"b", "o", "f", "a">>,
      <<"o", "c", "w", "e", "n">>,
      <<"c", "a", "r", "r", "i", "n", "g", "t", "o", "n">>,
      <<"s", "p", "e", "c", "i", "a", "l", "i", "z", "e", "d", " ", "l", "o", "a", "n", " ", "s", "e", "r", "v", "i", "c", "i", "n", "g">>,
      <<"c", "e", "n", "l", "a", "r">>,
      <<"u", "s", " ", "b", "a", "n", "k">> }

LLB_SCORES == [LLB1 |-> 95, LLB2 |-> 88, LLB3 |-> 80, LLB4 |-> 72, LLB5 |-> 65,
               LLB6 |-> 58, LLB7 |-> 52, MLB |-> 45, STD |-> 40, JUMBO |-> 25]
SERVICER_SCORES == [PREPAY_PROTECTED |-> 80, NEUTRAL |-> 50, PREPAY_EXPOSED |-> 20]
STATE_SCORES == [HIGH_FRICTION |-> 75, MODERATE_FRICTION |-> 50, LOW_FRICTION |-> 30]
FICO_SCORES == [FICO_LOW |-> 80, FICO_SUBPRIME |-> 70, FICO_FAIR |-> 55,
                FICO_GOOD |-> 50, FICO_EXCELLENT |-> 35, FICO_SUPER |-> 25]
LTV_SCORES == [LTV_LOW |-> 40, LTV_MOD |-> 50, LTV_STANDARD |-> 55,
               LTV_HIGH |-> 65, LTV_VERY_HIGH |-> 75, LTV_EXTREME |-> 85]

\* str.lower() and str.upper()
UpperCase == <<"A", "B", "C", "D", "E", "F", "G", "H", "I", "J", "K", "L", "M",
               "N", "O", "P", "Q", "R", "S", "T", "U", "V", "W", "X", "Y", "Z">>
LowerCase == <<"a", "b", "c", "d", "e", "f", "g", "h", "i", "j", "k", "l", "m",
               "n", "o", "p", "q", "r", "s", "t", "u", "v", "w", "x", "y", "z">>

lower(name) ==
    [i \in DOMAIN name |->
       IF \E k \in DOMAIN UpperCase : UpperCase[k] = name[i]
       THEN LowerCase[CHOOSE k \in DOMAIN UpperCase : UpperCase[k] = name[i]]
       ELSE name[i]]

\* a state code is held as one string; upper() of the codes that occur
upper(state) ==
    CASE state = "ny" -> "NY"
      [] state = "ca" -> "CA"
      [] state = "oh" -> "OH"
      [] OTHER -> state

\* s in name
Contains(name, s) ==
    \E i \in 1..(Len(name) - Len(s) + 1) : SubSeq(name, i, i + Len(s) - 1) = s

\* a pool as tag_all_pools builds it from a fetched row: PoolData(...)
PoolData(id, loan, fico, ltv, age, coupon, state, pct, servicer, fac) ==
    [pool_id |-> id, avg_loan_size |-> loan, avg_fico |-> fico, avg_ltv |-> ltv,
     wala |-> age, wac |-> coupon, top_state |-> state, top_state_pct |-> pct,
     servicer_name |-> servicer, factor |-> fac]

\* ------------------------------------------------- layer 1: classifications
\* variant: the labels of the two lowest brackets exchanged
classify_loan_balance_tier_swapped(avg_loan_size) ==
    IF avg_loan_size = None THEN "STD"
    ELSE LET v == Val(avg_loan_size)
         IN  IF v <= 85000 THEN "LLB2"
             ELSE IF v <= 110000 THEN "LLB1"
             ELSE IF v <= 125000 THEN "LLB3"
             ELSE IF v <= 150000 THEN "LLB4"
             ELSE IF v <= 175000 THEN "LLB5"
             ELSE IF v <= 200000 THEN "LLB6"
             ELSE IF v <= 225000 THEN "LLB7"
             ELSE IF v <= 300000 THEN "MLB"
             ELSE IF v <= ConformingLimit THEN "STD"
             ELSE "JUMBO"

classify_loan_balance_tier(avg_loan_size) ==
    IF avg_loan_size = None THEN "STD"
    ELSE LET v == Val(avg_loan_size)
         IN  IF v <= 85000 THEN "LLB1"
             ELSE IF v <= 110000 THEN "LLB2"
             ELSE IF v <= 125000 THEN "LLB3"
             ELSE IF v <= 150000 THEN "LLB4"
             ELSE IF v <= 175000 THEN "LLB5"
             ELSE IF v <= 200000 THEN "LLB6"
             ELSE IF v <= 225000 THEN "LLB7"
             ELSE IF v <= 300000 THEN "MLB"
             ELSE IF v <= ConformingLimit THEN "STD"
             ELSE "JUMBO"

classify_fico_bucket(avg_fico) ==
    IF avg_fico = None THEN "FICO_GOOD"
    ELSE LET v == Val(avg_fico)
         IN  IF v < 660 THEN "FICO_LOW"
             ELSE IF v < 680 THEN "FICO_SUBPRIME"
             ELSE IF v < 720 THEN "FICO_FAIR"
             ELSE IF v < 760 THEN "FICO_GOOD"
             ELSE IF v < 780 THEN "FICO_EXCELLENT"
             ELSE "FICO_SUPER"

classify_ltv_bucket(avg_ltv) ==
    IF avg_ltv = None THEN "LTV_STANDARD"
    ELSE LET v == Val(avg_ltv)
         IN  IF v <= 60 THEN "LTV_LOW"
             ELSE IF v <= 70 THEN "LTV_MOD"
             ELSE IF v <= 80 THEN "LTV_STANDARD"
             ELSE IF v <= 90 THEN "LTV_HIGH"
             ELSE IF v <= 95 THEN "LTV_VERY_HIGH"
             ELSE "LTV_EXTREME"

\* variant: a missing age taken as age 0
classify_seasoning_stage_zero(wala) ==
    LET v == IF wala = None THEN 0 ELSE Val(wala)
    IN  IF v <= 6 THEN "NEW_PRODUCTION"
        ELSE IF v <= 12 THEN "RAMPING"
        ELSE IF v <= 24 THEN "SEASONED"
        ELSE IF v <= 36 THEN "FULLY_SEASONED"
        ELSE IF v <= 60 THEN "WELL_SEASONED"
        ELSE "BURNED_OUT"

classify_seasoning_stage(wala) ==
    IF wala = None THEN "FULLY_SEASONED"
    ELSE LET v == Val(wala)
         IN  IF v <= 6 THEN "NEW_PRODUCTION"
             ELSE IF v <= 12 THEN "RAMPING"
             ELSE IF v <= 24 THEN "SEASONED"
             ELSE IF v <= 36 THEN "FULLY_SEASONED"
             ELSE IF v <= 60 THEN "WELL_SEASONED"
             ELSE "BURNED_OUT"

\* "not top_state": None or the empty string
Falsy(s) == s = None \/ Val(s) = ""

\* variant: the share 25 that admits a state also enough for its friction
classify_state_friction_25(top_state, top_state_pct) ==
    IF Falsy(top_state) \/ top_state_pct = None THEN "MODERATE_FRICTION"
    ELSE IF Val(top_state_pct) < 25 THEN "MODERATE_FRICTION"
    ELSE LET state == upper(Val(top_state))
         IN  IF state \in HIGH_FRICTION_STATES THEN "HIGH_FRICTION"
             ELSE IF state \in LOW_FRICTION_STATES THEN "LOW_FRICTION"
             ELSE "MODERATE_FRICTION"

classify_state_friction(top_state, top_state_pct) ==
    IF Falsy(top_state) \/ top_state_pct = None THEN "MODERATE_FRICTION"
    ELSE IF Val(top_state_pct) < 25 THEN "MODERATE_FRICTION"
    ELSE LET state == upper(Val(top_state))
             pct   == Val(top_state_pct)
         IN  IF state \in HIGH_FRICTION_STATES /\ pct >= 30 THEN "HIGH_FRICTION"
             ELSE IF state \in LOW_FRICTION_STATES /\ pct >= 30 THEN "LOW_FRICTION"
             ELSE "MODERATE_FRICTION"

\* "not servicer_name": None or the empty name, both the empty tuple
\* variant: the slow set searched before the fast set
classify_servicer_prepay_risk_slow_first(servicer_name) ==
    IF servicer_name = None \/ Val(servicer_name) = <<>> THEN "NEUTRAL"
    ELSE LET name_lower == lower(Val(servicer_name))
         IN  IF \E s \in SLOW_SERVICERS : Contains(name_lower, s)
             THEN "PREPAY_PROTECTED"
             ELSE IF \E s \in FAST_SERVICERS : Contains(name_lower, s)
             THEN "PREPAY_EXPOSED"
             ELSE "NEUTRAL"

classify_servicer_prepay_risk(servicer_name) ==
    IF servicer_name = None \/ Val(servicer_name) = <<>> THEN "NEUTRAL"
    ELSE LET name_lower == lower(Val(servicer_name))
         IN  IF \E s \in FAST_SERVICERS : Contains(name_lower, s)
             THEN "PREPAY_EXPOSED"
             ELSE IF \E s \in SLOW_SERVICERS : Contains(name_lower, s)
             THEN "PREPAY_PROTECTED"
             ELSE "NEUTRAL"

\* variant: the regional groupings tested before the state-specific flags
classify_geo_concentration_regions_first(top_state, top_state_pct) ==
    IF Falsy(top_state) \/ top_state_pct = None THEN <<"DIVERSIFIED">>
    ELSE LET state == upper(Val(top_state))
             pct   == Val(top_state_pct)
         IN  IF state \in {"CA", "FL", "NY", "WA", "OR", "MA"} /\ pct >= 25
             THEN <<"COASTAL">>
             ELSE IF state \in {"TX", "FL", "AZ", "NV", "GA"} /\ pct >= 25
             THEN <<"SUNBELT">>
             ELSE IF state \in {"OH", "MI", "IL", "IN", "WI"} /\ pct >= 25
             THEN <<"MIDWEST">>
             ELSE IF state = "CA" /\ pct >= 30 THEN <<"CA_HEAVY">>
             ELSE IF state = "TX" /\ pct >= 30 THEN <<"TX_HEAVY">>
             ELSE IF state = "FL" /\ pct >= 30 THEN <<"FL_HEAVY">>
             ELSE IF state = "NY" /\ pct >= 25 THEN <<"NY_HEAVY">>
             ELSE IF pct < 20 THEN <<"DIVERSIFIED">>
             ELSE <<state, "_CONCENTRATED">>

\* variant: the last branch returning the state code without its suffix
classify_geo_concentration_bare(top_state, top_state_pct) ==
    IF Falsy(top_state) \/ top_state_pct = None THEN <<"DIVERSIFIED">>
    ELSE LET state == upper(Val(top_state))
             pct   == Val(top_state_pct)
         IN  IF state = "CA" /\ pct >= 30 THEN <<"CA_HEAVY">>
             ELSE IF state = "TX" /\ pct >= 30 THEN <<"TX_HEAVY">>
             ELSE IF state = "FL" /\ pct >= 30 THEN <<"FL_HEAVY">>
             ELSE IF state = "NY" /\ pct >= 25 THEN <<"NY_HEAVY">>
             ELSE IF state \in {"CA", "FL", "NY", "WA", "OR", "MA"} /\ pct >= 25
             THEN <<"COASTAL">>
             ELSE IF state \in {"TX", "FL", "AZ", "NV", "GA"} /\ pct >= 25
             THEN <<"SUNBELT">>
             ELSE IF state \in {"OH", "MI", "IL", "IN", "WI"} /\ pct >= 25
             THEN <<"MIDWEST">>
             ELSE IF pct < 20 THEN <<"DIVERSIFIED">>
             ELSE <<state>>

\* f'{state}_CONCENTRATED' is the pair of the state and the suffix
classify_geo_concentration(top_state, top_state_pct) ==
    IF Falsy(top_state) \/ top_state_pct = None THEN <<"DIVERSIFIED">>
    ELSE LET state == upper(Val(top_state))
             pct   == Val(top_state_pct)
         IN  IF state = "CA" /\ pct >= 30 THEN <<"CA_HEAVY">>
             ELSE IF state = "TX" /\ pct >= 30 THEN <<"TX_HEAVY">>
             ELSE IF state = "FL" /\ pct >= 30 THEN <<"FL_HEAVY">>
             ELSE IF state = "NY" /\ pct >= 25 THEN <<"NY_HEAVY">>
             ELSE IF state \in {"CA", "FL", "NY", "WA", "OR", "MA"} /\ pct >= 25
             THEN <<"COASTAL">>
             ELSE IF state \in {"TX", "FL", "AZ", "NV", "GA"} /\ pct >= 25
             THEN <<"SUNBELT">>
             ELSE IF state \in {"OH", "MI", "IL", "IN", "WI"} /\ pct >= 25
             THEN <<"MIDWEST">>
             ELSE IF pct < 20 THEN <<"DIVERSIFIED">>
             ELSE <<state, "_CONCENTRATED">>

\* ---------------------------------------------------- layer 2: derived metrics
\* Units.  Multipliers and the convexity score are integers in thousandths;
\* the burnout score is in sixtieths of a point (wala / 60 * 35 and
\* (1 - factor) * 60 with the factor in hundredths are then integers); the
\* risk, composite and scenario scores are in tenths of a point.
\*
\* round(x, k) returns the k-decimal value nearest to the double x.  When the
\* exact value of the expression lies midway between two such values the
\* double lies on either side of the midpoint, as the representation error of
\* its operands falls, so both neighbours are outcomes; everywhere else the
\* outcome is the nearest value.  Round(n, d) is the set of outcomes for n / d.
Round(n, d) ==
    LET q == n \div d
        m == n % d
    IN  IF 2 * m = d THEN {q, q + 1}
        ELSE IF 2 * m > d THEN {q + 1}
        ELSE {q}

\* max(0, min(100, x)) on tenths
Clamp(x) == Max(0, Min(1000, x))

calc_refi_incentive(wac, rate) ==
    IF wac = None THEN 0 ELSE ((Val(wac) - rate) * 100) \div Scale

calc_burnout_score(wala, factor, refi_incentive_bps) ==
    LET w == IF wala = None THEN 36 ELSE Val(wala)
        f == IF factor = None THEN 85 ELSE Val(factor)
        seasoning_pts == Min(35 * 60, w * 35)
        paydown_pts   == Min(45 * 60, (100 - f) * 36)
        itm_bonus     == IF refi_incentive_bps > 50 /\ w > 12
                         THEN Min(20 * 60, w * 50)
                         ELSE 0
    IN  Min(100 * 60, seasoning_pts + paydown_pts + itm_bonus)

calc_premium_mult(pool) ==
    LET tier_mults == [LLB1 |-> 650, LLB2 |-> 700, LLB3 |-> 750, LLB4 |-> 800,
                       LLB5 |-> 840, LLB6 |-> 870, LLB7 |-> 900, MLB |-> 950,
                       STD |-> 1000, JUMBO |-> 1100]
        servicer_mults == [PREPAY_PROTECTED |-> 850, NEUTRAL |-> 1000,
                           PREPAY_EXPOSED |-> 1150]
        fico_mults == [FICO_LOW |-> 750, FICO_SUBPRIME |-> 800, FICO_FAIR |-> 900,
                       FICO_GOOD |-> 1000, FICO_EXCELLENT |-> 1080,
                       FICO_SUPER |-> 1120]
        tier == classify_loan_balance_tier(pool.avg_loan_size)
        servicer_risk == classify_servicer_prepay_risk(pool.servicer_name)
        fico_bucket == classify_fico_bucket(pool.avg_fico)
    IN  Round(tier_mults[tier] * servicer_mults[servicer_risk]
                * fico_mults[fico_bucket], 1000000)

\* variant: the servicer effect of the premium multiplier
calc_discount_mult_premium_servicer(pool) ==
    LET tier_mults == [LLB1 |-> 1200, LLB2 |-> 1150, LLB3 |-> 1120, LLB4 |-> 1100,
                       LLB5 |-> 1080, LLB6 |-> 1050, LLB7 |-> 1030, MLB |-> 1000,
                       STD |-> 1000, JUMBO |-> 800]
        servicer_mults == [PREPAY_PROTECTED |-> 850, NEUTRAL |-> 1000,
                           PREPAY_EXPOSED |-> 1150]
        fico_mults == [FICO_LOW |-> 1150, FICO_SUBPRIME |-> 1100, FICO_FAIR |-> 1050,
                       FICO_GOOD |-> 1000, FICO_EXCELLENT |-> 900,
                       FICO_SUPER |-> 850]
        tier == classify_loan_balance_tier(pool.avg_loan_size)
        servicer_risk == classify_servicer_prepay_risk(pool.servicer_name)
        fico_bucket == classify_fico_bucket(pool.avg_fico)
    IN  Round(tier_mults[tier] * servicer_mults[servicer_risk]
                * fico_mults[fico_bucket], 1000000)

calc_discount_mult(pool) ==
    LET tier_mults == [LLB1 |-> 1200, LLB2 |-> 1150, LLB3 |-> 1120, LLB4 |-> 1100,
                       LLB5 |-> 1080, LLB6 |-> 1050, LLB7 |-> 1030, MLB |-> 1000,
                       STD |-> 1000, JUMBO |-> 800]
        servicer_mults == [PREPAY_PROTECTED |-> 900, NEUTRAL |-> 1000,
                           PREPAY_EXPOSED |-> 700]
        fico_mults == [FICO_LOW |-> 1150, FICO_SUBPRIME |-> 1100, FICO_FAIR |-> 1050,
                       FICO_GOOD |-> 1000, FICO_EXCELLENT |-> 900,
                       FICO_SUPER |-> 850]
        tier == classify_loan_balance_tier(pool.avg_loan_size)
        servicer_risk == classify_servicer_prepay_risk(pool.servicer_name)
        fico_bucket == classify_fico_bucket(pool.avg_fico)
    IN  Round(tier_mults[tier] * servicer_mults[servicer_risk]
                * fico_mults[fico_bucket], 1000000)

\* variant: the floor 0.01 dividing whatever the discount multiplier is
calc_convexity_score_floored(premium_mult, discount_mult) ==
    Round(premium_mult * 1000, 10)

\* the floor 0.01 is 10 thousandths
calc_convexity_score(premium_mult, discount_mult) ==
    LET d == IF discount_mult <= 0 THEN 10 ELSE discount_mult
    IN  Round(premium_mult * 1000, d)

classify_s_curve_position(refi_incentive_bps) ==
    IF refi_incentive_bps < -100 THEN "LEFT_TAIL"
    ELSE IF refi_incentive_bps < -25 THEN "LEFT_SHOULDER"
    ELSE IF refi_incentive_bps < 75 THEN "INFLECTION"
    ELSE IF refi_incentive_bps < 150 THEN "RIGHT_SHOULDER"
    ELSE "RIGHT_TAIL"

\* risk = base_risk - burnout_reduction + servicer_adj + fico_adj with
\* base_risk = (premium - 0.5) / 0.7 * 50 and burnout_reduction = burnout / 4,
\* over the common denominator 1680
calc_contraction_risk(tags) ==
    LET servicer_adj == [PREPAY_PROTECTED |-> -10, NEUTRAL |-> 0,
                         PREPAY_EXPOSED |-> 15]
        fico_adj == [FICO_LOW |-> -10, FICO_SUBPRIME |-> -5, FICO_FAIR |-> 0,
                     FICO_GOOD |-> 5, FICO_EXCELLENT |-> 10, FICO_SUPER |-> 15]
        risk == (tags.premium_cpr_mult - 500) * 120
                  - tags.burnout_score * 7
                  + (servicer_adj[tags.servicer_prepay_risk]
                       + fico_adj[tags.fico_bucket]) * 1680
    IN  {Clamp(x) : x \in Round(risk, 168)}

\* risk = base_risk + otm_adj + factor_adj + llb_adj with
\* base_risk = (1.2 - discount) / 0.5 * 40 and factor_adj = (factor - 0.5) * 20,
\* over the common denominator 25
calc_extension_risk(tags, pool) ==
    LET incentive == tags.refi_incentive_bps
        factor == IF pool.factor = None \/ Val(pool.factor) = 0
                  THEN 85 ELSE Val(pool.factor)
        otm_adj == IF incentive < -100 THEN 20
                   ELSE IF incentive < -50 THEN 10
                   ELSE 0
        factor_adj == IF factor > 50 THEN (factor - 50) * 5 ELSE 0
        llb_adj == [LLB1 |-> -15, LLB2 |-> -12, LLB3 |-> -10, LLB4 |-> -8,
                    LLB5 |-> -6, LLB6 |-> -4, LLB7 |-> -2, MLB |-> 0,
                    STD |-> 0, JUMBO |-> 10]
        risk == (1200 - tags.discount_cpr_mult) * 2 + otm_adj * 25
                  + factor_adj + llb_adj[tags.loan_balance_tier] * 25
    IN  {Clamp(x) : x \in Round(risk * 2, 5)}

\* ---------------------------------------------------- layer 3: behavior tags
\* variant: the credit-score bonus given to the high buckets
_calc_protection_score_high_fico(pool, tags) ==
    LET llb_bonus == [LLB1 |-> 25, LLB2 |-> 20, LLB3 |-> 15, LLB4 |-> 12,
                      LLB5 |-> 10, LLB6 |-> 8, LLB7 |-> 5, MLB |-> 2,
                      STD |-> 0, JUMBO |-> 0]
        fico_bonus == [FICO_LOW |-> 0, FICO_SUBPRIME |-> 0, FICO_FAIR |-> 0,
                       FICO_GOOD |-> 5, FICO_EXCELLENT |-> 10, FICO_SUPER |-> 15]
    IN  llb_bonus[tags.loan_balance_tier]
        + (IF tags.servicer_prepay_risk = "PREPAY_PROTECTED" THEN 12 ELSE 0)
        + (IF tags.state_prepay_friction = "HIGH_FRICTION" THEN 10 ELSE 0)
        + fico_bonus[tags.fico_bucket]
        + (IF tags.burnout_score >= 60 * 60 THEN 15 ELSE 0)

\* variant: the balance bonus read from LLB_SCORES
_calc_protection_score_llb(pool, tags) ==
    LET fico_bonus == [FICO_LOW |-> 15, FICO_SUBPRIME |-> 10, FICO_FAIR |-> 5,
                       FICO_GOOD |-> 0, FICO_EXCELLENT |-> 0, FICO_SUPER |-> 0]
    IN  LLB_SCORES[tags.loan_balance_tier]
        + (IF tags.servicer_prepay_risk = "PREPAY_PROTECTED" THEN 12 ELSE 0)
        + (IF tags.state_prepay_friction = "HIGH_FRICTION" THEN 10 ELSE 0)
        + fico_bonus[tags.fico_bucket]
        + (IF tags.burnout_score >= 60 * 60 THEN 15 ELSE 0)

_calc_protection_score(pool, tags) ==
    LET llb_bonus == [LLB1 |-> 25, LLB2 |-> 20, LLB3 |-> 15, LLB4 |-> 12,
                      LLB5 |-> 10, LLB6 |-> 8, LLB7 |-> 5, MLB |-> 2,
                      STD |-> 0, JUMBO |-> 0]
        fico_bonus == [FICO_LOW |-> 15, FICO_SUBPRIME |-> 10, FICO_FAIR |-> 5,
                       FICO_GOOD |-> 0, FICO_EXCELLENT |-> 0, FICO_SUPER |-> 0]
    IN  llb_bonus[tags.loan_balance_tier]
        + (IF tags.servicer_prepay_risk = "PREPAY_PROTECTED" THEN 12 ELSE 0)
        + (IF tags.state_prepay_friction = "HIGH_FRICTION" THEN 10 ELSE 0)
        + fico_bonus[tags.fico_bucket]
        + (IF tags.burnout_score >= 60 * 60 THEN 15 ELSE 0)

BehaviorNames == {"prepay_protected", "prepay_exposed", "positive_convexity",
                  "negative_convexity", "burnout_candidate", "extension_risk"}

\* the dict behavior: a function from the keys set to their records
generate_behavior_tags(pool, tags) ==
    LET protection_score == _calc_protection_score(pool, tags)
        convexity == tags.convexity_score
        burnout   == tags.burnout_score
        incentive == tags.refi_incentive_bps
        factor    == IF pool.factor = None \/ Val(pool.factor) = 0
                     THEN 100 ELSE Val(pool.factor)
        keys ==
            {k \in BehaviorNames :
               \/ k = "prepay_protected" /\ protection_score >= 35
               \/ /\ k = "prepay_exposed"
                  /\ tags.servicer_prepay_risk = "PREPAY_EXPOSED"
                  /\ tags.fico_bucket \in {"FICO_EXCELLENT", "FICO_SUPER"}
                  /\ tags.loan_balance_tier \in {"STD", "JUMBO"}
                  /\ burnout < 30 * 60
               \/ k = "positive_convexity" /\ convexity < 700
               \/ k = "negative_convexity" /\ convexity > 1100
               \/ k = "burnout_candidate" /\ burnout >= 60 * 60 /\ incentive > 25
               \/ /\ k = "extension_risk"
                  /\ incentive < -100
                  /\ tags.discount_cpr_mult < 850
                  /\ factor > 85}
    IN  [k \in keys |->
           CASE k = "prepay_protected" ->
                  [value |-> TRUE,
                   strength |-> IF protection_score >= 50 THEN "strong"
                                ELSE "moderate",
                   protection_score |-> protection_score]
             [] k = "prepay_exposed" ->
                  [value |-> TRUE, severity |-> "high",
                   premium_mult |-> tags.premium_cpr_mult]
             [] k = "positive_convexity" ->
                  [value |-> TRUE, convexity_score |-> convexity,
                   premium_mult |-> tags.premium_cpr_mult,
                   discount_mult |-> tags.discount_cpr_mult]
             [] k = "negative_convexity" ->
                  [value |-> TRUE,
                   severity |-> IF convexity > 1250 THEN "high" ELSE "moderate",
                   convexity_score |-> convexity]
             [] k = "burnout_candidate" ->
                  [value |-> TRUE, burnout_score |-> burnout]
             [] OTHER ->
                  [value |-> TRUE, severity |-> "high"]]

\* -------------------------------------------------- layer 4: composite scores
\* weights in hundredths, scores in sixtieths of a point
calc_composite_prepay_score(tags) ==
    LET weights == [loan_balance |-> 25, servicer |-> 15, fico |-> 15,
                    state |-> 8, burnout |-> 10, ltv |-> 7, seasoning |-> 10,
                    other |-> 10]
        seasoning_map == [NEW_PRODUCTION |-> 60, RAMPING |-> 55, SEASONED |-> 50,
                          FULLY_SEASONED |-> 50, WELL_SEASONED |-> 65,
                          BURNED_OUT |-> 75]
        scores == [loan_balance |-> 60 * LLB_SCORES[tags.loan_balance_tier],
                   servicer |-> 60 * SERVICER_SCORES[tags.servicer_prepay_risk],
                   fico |-> 60 * FICO_SCORES[tags.fico_bucket],
                   state |-> 60 * STATE_SCORES[tags.state_prepay_friction],
                   burnout |-> tags.burnout_score,
                   ltv |-> 60 * LTV_SCORES[tags.ltv_bucket],
                   seasoning |-> 60 * seasoning_map[tags.seasoning_stage],
                   other |-> 60 * 50]
        composite == scores.loan_balance * weights.loan_balance
                       + scores.servicer * weights.servicer
                       + scores.fico * weights.fico
                       + scores.state * weights.state
                       + scores.burnout * weights.burnout
                       + scores.ltv * weights.ltv
                       + scores.seasoning * weights.seasoning
                       + scores.other * weights.other
    IN  Round(composite, 600)

\* variant: the contraction risk counted for the pool, not against it
calc_bull_scenario_score_for(tags) ==
    Round(120 * tags.contraction_risk_score
            + 50 * tags.composite_prepay_score
            + 5 * tags.burnout_score, 200)

\* 0.60 * (100 - contraction_risk) + 0.25 * composite + 0.15 * burnout,
\* over the common denominator 2000
calc_bull_scenario_score(tags) ==
    Round(120 * (1000 - tags.contraction_risk_score)
            + 50 * tags.composite_prepay_score
            + 5 * tags.burnout_score, 200)

\* 0.50 * (100 - extension_risk) + 0.30 * min(100, discount_mult * 50)
\*   + 0.20 * (100 if convexity < 0.7 else 50), over the denominator 200
calc_bear_scenario_score(tags) ==
    Round(10 * (1000 - tags.extension_risk_score)
            + 3 * Min(2000, tags.discount_cpr_mult)
            + (IF tags.convexity_score < 700 THEN 4000 ELSE 2000), 20)

\* convexity_score = 100 - abs(50 - convexity * 50) * 2;
\* 0.40 * composite + 0.35 * convexity_score + 0.25 * 50, over 1000
calc_neutral_scenario_score(tags) ==
    LET dev == IF tags.convexity_score >= 1000
               THEN tags.convexity_score - 1000
               ELSE 1000 - tags.convexity_score
    IN  Round(40 * tags.composite_prepay_score + 35 * (1000 - dev) + 12500, 100)

\* ------------------------------------------------------ main tagging method
\* the set of tag sets generate_all_tags(pool) can return at the rate
\* self.current_rate = rate: one element except where a rounding is at a
\* midpoint
generate_all_tags(pool, rate) ==
    LET refi == calc_refi_incentive(pool.wac, rate)
        t1 == [loan_balance_tier |-> classify_loan_balance_tier(pool.avg_loan_size),
               fico_bucket |-> classify_fico_bucket(pool.avg_fico),
               ltv_bucket |-> classify_ltv_bucket(pool.avg_ltv),
               seasoning_stage |-> classify_seasoning_stage(pool.wala),
               state_prepay_friction |->
                   classify_state_friction(pool.top_state, pool.top_state_pct),
               servicer_prepay_risk |->
                   classify_servicer_prepay_risk(pool.servicer_name),
               geo_concentration_tag |->
                   classify_geo_concentration(pool.top_state, pool.top_state_pct),
               refi_incentive_bps |-> refi,
               burnout_score |-> calc_burnout_score(pool.wala, pool.factor, refi),
               s_curve_position |-> classify_s_curve_position(refi)]
        t2 == UNION {{t1 @@ [premium_cpr_mult |-> p, discount_cpr_mult |-> d,
                             convexity_score |-> c] :
                         c \in calc_convexity_score(p, d)} :
                     p \in calc_premium_mult(pool), d \in calc_discount_mult(pool)}
        t3 == UNION {{t @@ [contraction_risk_score |-> c,
                            extension_risk_score |-> e] :
                         c \in calc_contraction_risk(t),
                         e \in calc_extension_risk(t, pool)} : t \in t2}
        t4 == {t @@ [behavior_tags |-> generate_behavior_tags(pool, t)] : t \in t3}
        t5 == UNION {{t @@ [composite_prepay_score |-> c] :
                         c \in calc_composite_prepay_score(t)} : t \in t4}
    IN  UNION {{t @@ [bull_scenario_score |-> b, bear_scenario_score |-> e,
                      neutral_scenario_score |-> n] :
                   b \in calc_bull_scenario_score(t),
                   e \in calc_bear_scenario_score(t),
                   n \in calc_neutral_scenario_score(t)} : t \in t5}

\* ------------------------------------------------------------------ Init
NoPrev == [outcome |-> "none", batch_size |-> 0, limit |-> None]

InitHist == [call |-> 0, quiet |-> TRUE, committed |-> {}, n0 |-> 0, failed_at |-> 0,
             start |-> [p \in PoolIds |-> [tags_updated_at |-> None, tags |-> None]],
             lookup |-> "pending", rate_read |-> 0, reads |-> 0,
             prev |-> NoPrev]

\* the pool whose optional attributes are all null
NullPool == PoolData(1, None, None, None, None, None, None, None, None, None)

\* the state after PoolTagger(engine, current_mortgage_rate) is constructed,
\* over a pool store holding the given pools, all of them untagged
InitStore(pools) ==
    /\ dim_pool \in pools
    /\ fred_observation = {}
    /\ fred_observations = [available |-> FALSE, rows |-> {}]
    /\ clock = 1
    /\ pc = [r \in Taggers |-> "idle"]
    /\ supplied \in [Taggers -> CallerRates]
    /\ \A r \in Taggers \ SingleWriter : supplied[r] = None
    /\ current_rate = [r \in Taggers |->
                         IF supplied[r] = None THEN CtorDefaultRate ELSE Val(supplied[r])]
    /\ batch_size = [r \in Taggers |-> 1]
    /\ limit = [r \in Taggers |-> None]
    /\ total = [r \in Taggers |-> 0]
    /\ processed = [r \in Taggers |-> 0]
    /\ offset = [r \in Taggers |-> 0]
    /\ rows = [r \in Taggers |-> <<>>]
    /\ updates = [r \in Taggers |-> <<>>]
    /\ txn = [r \in Taggers |-> 0]
    /\ txn_now = [r \in Taggers |-> 0]
    /\ ret = [r \in Taggers |-> None]
    /\ failures = 0
    /\ ingests = 0
    /\ hist = [r \in Taggers |-> InitHist]

\* ... with no direct call of generate_all_tags made or to come
InitWith(pools) ==
    /\ InitStore(pools)
    /\ pool_data = NullPool
    /\ market_rate = CtorDefaultRate
    /\ tag_set = None

\* a pool as an issuance file gives it: a loan size, a coupon (possibly
\* missing) and the factor 1.00
NewPool(w) == PoolRow(Some(300000), w, Some(100))

\* every subset of the pool identifiers ingested, none tagged yet
Init ==
    InitWith([PoolIds -> {AbsentPool, NewPool(Some(700))}])

\* three ingested pools (the least number that gives a call of batch size 1
\* a second batch), with differing coupons, one possibly missing
InitRate ==
    InitWith({[p \in PoolIds |-> IF p = 1 THEN NewPool(w1)
                                ELSE IF p = 2 THEN NewPool(Some(700))
                                ELSE IF p = 3 THEN NewPool(w3) ELSE AbsentPool] :
                w1 \in {Some(600), Some(700)}, w3 \in {None, Some(700)}})

\* --------------------------------------------------------- tag_all_pools
\* the caller invokes tag_all_pools(batch_size=b, limit=l)
StartCall(r, b, l) ==
    /\ pc[r] \in {"idle", "done", "raised"}
    /\ hist[r].call < MaxCalls
    /\ pc' = [pc EXCEPT ![r] = "rate"]
    /\ batch_size' = [batch_size EXCEPT ![r] = b]
    /\ limit' = [limit EXCEPT ![r] = l]
    /\ total' = [total EXCEPT ![r] = 0]
    /\ processed' = [processed EXCEPT ![r] = 0]
    /\ offset' = [offset EXCEPT ![r] = 0]
    /\ rows' = [rows EXCEPT ![r] = <<>>]
    /\ updates' = [updates EXCEPT ![r] = <<>>]
    /\ txn' = [txn EXCEPT ![r] = 0]
    /\ txn_now' = [txn_now EXCEPT ![r] = 0]
    /\ ret' = [ret EXCEPT ![r] = None]
    /\ hist' = [hist EXCEPT ![r] =
                  [call |-> @.call + 1, quiet |-> TRUE, committed |-> {},
                   n0 |-> Cardinality(Untagged(dim_pool)), failed_at |-> 0,
                   start |-> [p \in PoolIds |->
                                [tags_updated_at |-> dim_pool[p].tags_updated_at,
                                 tags |-> dim_pool[p].tags]],
                   lookup |-> "pending", rate_read |-> 0, reads |-> 0,
                   prev |-> [outcome |-> pc[r], batch_size |-> batch_size[r],
                             limit |-> limit[r]]]]
    /\ UNCHANGED << callVars, storeVars, supplied, current_rate, failures, ingests >>

\* variant: the lookup without its try/except, so that a failing query or a
\* null value raises out of tag_all_pools
RefreshRateNoCatch(r) ==
    /\ pc[r] = "rate"
    /\ IF LookupOutcome(fred_observations) \in {"exception", "null_value"}
       THEN /\ pc' = [pc EXCEPT ![r] = "raised"]
            /\ UNCHANGED current_rate
       ELSE /\ pc' = [pc EXCEPT ![r] = "count"]
            /\ current_rate' = [current_rate EXCEPT
                                  ![r] = get_current_mortgage_rate(fred_observations)]
    /\ hist' = [hist EXCEPT ![r].lookup = LookupOutcome(fred_observations),
                            ![r].rate_read = get_current_mortgage_rate(fred_observations),
                            ![r].reads = @ + 1]
    /\ UNCHANGED << callVars, storeVars, supplied, batch_size, limit, localVars, ret,
                    failures, ingests >>

\* self.current_rate = self._get_current_mortgage_rate()
RefreshRate(r) ==
    /\ pc[r] = "rate"
    /\ current_rate' = [current_rate EXCEPT
                          ![r] = get_current_mortgage_rate(fred_observations)]
    /\ pc' = [pc EXCEPT ![r] = "count"]
    /\ hist' = [hist EXCEPT ![r].lookup = LookupOutcome(fred_observations),
                            ![r].rate_read = get_current_mortgage_rate(fred_observations),
                            ![r].reads = @ + 1]
    /\ UNCHANGED << callVars, storeVars, supplied, batch_size, limit, localVars, ret,
                    failures, ingests >>

\* total = conn.execute(count_query).scalar(); processed = 0; offset = 0
CountPools(r) ==
    /\ pc[r] = "count"
    /\ total' = [total EXCEPT ![r] = CountQuery(dim_pool, limit[r])]
    /\ processed' = [processed EXCEPT ![r] = 0]
    /\ offset' = [offset EXCEPT ![r] = 0]
    /\ pc' = [pc EXCEPT ![r] = "loop"]
    /\ UNCHANGED << callVars, storeVars, supplied, current_rate, batch_size, limit, rows,
                    updates, txn, txn_now, ret, failures, ingests, hist >>

\* while processed < total fails: return processed
LoopExit(r) ==
    /\ pc[r] = "loop"
    /\ ~(processed[r] < total[r])
    /\ pc' = [pc EXCEPT ![r] = "done"]
    /\ ret' = [ret EXCEPT ![r] = Some(processed[r])]
    /\ UNCHANGED << callVars, storeVars, supplied, current_rate, batch_size, limit,
                    localVars, failures, ingests, hist >>

\* variant: the loop without "if not rows: break"
FetchBatchNoBreak(r) ==
    /\ pc[r] = "loop"
    /\ processed[r] < total[r]
    /\ rows' = [rows EXCEPT ![r] = FetchRows(dim_pool, batch_size[r], offset[r])]
    /\ pc' = [pc EXCEPT ![r] = "compute"]
    /\ UNCHANGED << callVars, storeVars, supplied, current_rate, batch_size, limit, total,
                    processed, offset, updates, txn, txn_now, ret, failures,
                    ingests, hist >>

\* FETCH_BATCH: rows = fetchall(); if not rows: break
FetchBatch(r) ==
    /\ pc[r] = "loop"
    /\ processed[r] < total[r]
    /\ LET fetched == FetchRows(dim_pool, batch_size[r], offset[r])
       IN  /\ rows' = [rows EXCEPT ![r] = fetched]
           /\ IF fetched = <<>>
              THEN /\ pc' = [pc EXCEPT ![r] = "done"]
                   /\ ret' = [ret EXCEPT ![r] = Some(processed[r])]
              ELSE /\ pc' = [pc EXCEPT ![r] = "compute"]
                   /\ ret' = ret
    /\ UNCHANGED << callVars, storeVars, supplied, current_rate, batch_size, limit, total,
                    processed, offset, updates, txn, txn_now, failures, ingests,
                    hist >>

\* pool = PoolData(pool_id=row[0], ..., product_type=row[9]): the factor is
\* not among the columns and keeps the default None
RowPool(row) ==
    PoolData(row.pool_id, row.avg_loan_size, row.avg_fico, row.avg_ltv, row.wala,
             row.wac, row.top_state, row.top_state_pct, row.servicer_name, None)

\* the updates lists the loop body can build for a batch at a rate
TagRows(batch, rate) ==
    {u \in [DOMAIN batch ->
              UNION {{[pool_id |-> batch[i].pool_id, tags |-> t] :
                         t \in generate_all_tags(RowPool(batch[i]), rate)} :
                     i \in DOMAIN batch}] :
        \A i \in DOMAIN batch : u[i].pool_id = batch[i].pool_id}

\* variant: the rate looked up again for every batch
ComputeBatchRefresh(r) ==
    /\ pc[r] = "compute"
    /\ \E u \in TagRows(rows[r], get_current_mortgage_rate(fred_observations)) :
          updates' = [updates EXCEPT ![r] = u]
    /\ txn' = [txn EXCEPT ![r] = 0]
    /\ pc' = [pc EXCEPT ![r] = "persist"]
    /\ UNCHANGED << callVars, storeVars, supplied, current_rate, batch_size, limit, total,
                    processed, offset, rows, txn_now, ret, failures, ingests, hist >>

\* COMPUTE: updates.append(generate_all_tags(pool) + pool_id) for every row
ComputeBatch(r) ==
    /\ pc[r] = "compute"
    /\ \E u \in TagRows(rows[r], current_rate[r]) :
          updates' = [updates EXCEPT ![r] = u]
    /\ txn' = [txn EXCEPT ![r] = 0]
    /\ pc' = [pc EXCEPT ![r] = "persist"]
    /\ UNCHANGED << callVars, storeVars, supplied, current_rate, batch_size, limit, total,
                    processed, offset, rows, txn_now, ret, failures, ingests, hist >>

\* ---------------------------------------------------- _batch_update_tags
\* conn.execute(text(update_sql), tags) for the next element of updates;
\* the first statement opens the transaction, which fixes NOW()
ExecuteUpdate(r) ==
    /\ pc[r] = "persist"
    /\ txn[r] < Len(updates[r])
    /\ txn' = [txn EXCEPT ![r] = @ + 1]
    /\ IF txn[r] = 0
       THEN /\ txn_now' = [txn_now EXCEPT ![r] = clock]
            /\ clock' = clock + 1
       ELSE UNCHANGED << txn_now, clock >>
    /\ UNCHANGED << callVars, dim_pool, fred_observation, fred_observations, pc, supplied,
                    current_rate, batch_size, limit, total, processed, offset,
                    rows, updates, ret, failures, ingests, hist >>

\* the rows the first k statements of the open transaction have written
\* variant: behavior_tags left to a statement of its own, outside the UPDATE
WrittenWithoutBehavior(store, upd, k, now) ==
    [p \in PoolIds |->
       IF store[p].present /\ \E i \in 1..k : upd[i].pool_id = p
       THEN LET i == CHOOSE j \in 1..k :
                        /\ upd[j].pool_id = p
                        /\ \A m \in 1..k : upd[m].pool_id = p => m <= j
            IN  [store[p] EXCEPT
                   !.tags = Some([c \in DOMAIN upd[i].tags \ {"behavior_tags"} |->
                                    upd[i].tags[c]]),
                   !.tags_updated_at = Some(now)]
       ELSE store[p]]

Written(store, upd, k, now) ==
    [p \in PoolIds |->
       IF store[p].present /\ \E i \in 1..k : upd[i].pool_id = p
       THEN LET i == CHOOSE j \in 1..k :
                        /\ upd[j].pool_id = p
                        /\ \A m \in 1..k : upd[m].pool_id = p => m <= j
            IN  [store[p] EXCEPT !.tags = Some(upd[i].tags),
                                 !.tags_updated_at = Some(now)]
       ELSE store[p]]

\* variant: the UPDATE restricted to rows still untagged (WHERE pool_id =
\* :pool_id AND tags_updated_at IS NULL), so that a pool another run tagged
\* meanwhile is left as that run wrote it
CommitBatchIfUntagged(r) ==
    /\ pc[r] = "persist"
    /\ txn[r] = Len(updates[r])
    /\ dim_pool' = [p \in PoolIds |->
                      IF dim_pool[p].tags_updated_at = None
                      THEN Written(dim_pool, updates[r], txn[r], txn_now[r])[p]
                      ELSE dim_pool[p]]
    /\ processed' = [processed EXCEPT ![r] = @ + Len(rows[r])]
    /\ offset' = [offset EXCEPT ![r] = @ + batch_size[r]]
    /\ txn' = [txn EXCEPT ![r] = 0]
    /\ pc' = [pc EXCEPT ![r] = "loop"]
    /\ hist' = [hist EXCEPT ![r].committed =
                  @ \cup {updates[r][i].pool_id : i \in 1..Len(updates[r])}]
    /\ UNCHANGED << callVars, fred_observation, fred_observations, clock, supplied,
                    current_rate, batch_size, limit, total, rows, updates,
                    txn_now, ret, failures, ingests >>

\* conn.commit(), then processed += len(rows); offset += batch_size
CommitBatch(r) ==
    /\ pc[r] = "persist"
    /\ txn[r] = Len(updates[r])
    /\ dim_pool' = Written(dim_pool, updates[r], txn[r], txn_now[r])
    /\ processed' = [processed EXCEPT ![r] = @ + Len(rows[r])]
    /\ offset' = [offset EXCEPT ![r] = @ + batch_size[r]]
    /\ txn' = [txn EXCEPT ![r] = 0]
    /\ pc' = [pc EXCEPT ![r] = "loop"]
    /\ hist' = [hist EXCEPT ![r].committed =
                  @ \cup {updates[r][i].pool_id : i \in 1..Len(updates[r])}]
    /\ UNCHANGED << callVars, fred_observation, fred_observations, clock, supplied,
                    current_rate, batch_size, limit, total, rows, updates,
                    txn_now, ret, failures, ingests >>

\* variant: every statement committed on its own, so that a failure keeps
\* the rows already written
PersistRaiseNoRollback(r) ==
    /\ pc[r] = "persist"
    /\ failures < MaxFailures
    /\ failures' = failures + 1
    /\ dim_pool' = Written(dim_pool, updates[r], txn[r], txn_now[r])
    /\ txn' = [txn EXCEPT ![r] = 0]
    /\ pc' = [pc EXCEPT ![r] = "raised"]
    /\ hist' = [hist EXCEPT ![r].failed_at = txn[r]]
    /\ UNCHANGED << callVars, fred_observation, fred_observations, clock, supplied,
                    current_rate, batch_size, limit, total, processed, offset,
                    rows, updates, txn_now, ret, ingests >>

\* connect, an execute or the commit raises: the connection is closed
\* without commit (the open transaction is rolled back) and the exception
\* leaves tag_all_pools, which has no handler
PersistRaise(r) ==
    /\ pc[r] = "persist"
    /\ failures < MaxFailures
    /\ failures' = failures + 1
    /\ txn' = [txn EXCEPT ![r] = 0]
    /\ pc' = [pc EXCEPT ![r] = "raised"]
    /\ hist' = [hist EXCEPT ![r].failed_at = txn[r]]
    /\ UNCHANGED << callVars, storeVars, supplied, current_rate, batch_size, limit, total,
                    processed, offset, rows, updates, txn_now, ret, ingests >>

\* ------------------------------------------------------------ collaborators
COALESCE(a, b) == IF a # None THEN a ELSE b

\* variant: the upsert marks an updated pool stale (tags_updated_at = NULL)
IssuanceUpsertStale(p, w) ==
    /\ ingests < MaxIngest
    /\ ingests' = ingests + 1
    /\ dim_pool' = [dim_pool EXCEPT ![p] =
                      IF dim_pool[p].present
                      THEN [@ EXCEPT !.wac = IF w # None THEN w ELSE @,
                                     !.tags_updated_at = None]
                      ELSE NewPool(w)]
    /\ hist' = [r \in Taggers |-> [hist[r] EXCEPT !.quiet = FALSE]]
    /\ UNCHANGED << callVars, fred_observation, fred_observations, clock, pc, supplied,
                    current_rate, batch_size, limit, localVars, ret, failures >>

\* IssuanceParser.process_file: INSERT INTO dim_pool ... ON CONFLICT (pool_id)
\* DO UPDATE SET wac = COALESCE(EXCLUDED.wac, dim_pool.wac), ...; commit
IssuanceUpsert(p, w) ==
    /\ ingests < MaxIngest
    /\ ingests' = ingests + 1
    /\ dim_pool' = [dim_pool EXCEPT ![p] =
                      IF dim_pool[p].present
                      THEN [@ EXCEPT !.wac = COALESCE(w, @)]
                      ELSE NewPool(w)]
    /\ hist' = [r \in Taggers |-> [hist[r] EXCEPT !.quiet = FALSE]]
    /\ UNCHANGED << callVars, fred_observation, fred_observations, clock, pc, supplied,
                    current_rate, batch_size, limit, localVars, ret, failures >>

\* FREDIngestor.insert_observations for series MORTGAGE30US: one observation,
\* INSERT INTO fred_observation ... ON CONFLICT (series_id, obs_date, vintage_date)
\* DO NOTHING
insert_observations(d, v) ==
    /\ ~\E o \in fred_observation : o.date = d
    /\ fred_observation' = fred_observation \cup {[date |-> d, value |-> v]}
    /\ UNCHANGED << callVars, dim_pool, fred_observations, clock, pc, supplied,
                    current_rate, batch_size, limit, localVars, ret, failures,
                    ingests, hist >>

\* The relation fred_observations(series_id, observation_date, value) that the
\* tagger queries is written by no code of the repository: its presence and
\* its rows are the environment's.
SourceLoad(d, v) ==
    /\ ~\E o \in fred_observations.rows : o.date = d
    /\ fred_observations' = [available |-> TRUE,
                             rows |-> fred_observations.rows \cup
                                        {[date |-> d, value |-> v]}]
    /\ UNCHANGED << callVars, dim_pool, fred_observation, clock, pc, supplied,
                    current_rate, batch_size, limit, localVars, ret, failures,
                    ingests, hist >>

SourceAvailability(a) ==
    /\ fred_observations.available # a
    /\ fred_observations' = [fred_observations EXCEPT !.available = a]
    /\ UNCHANGED << callVars, dim_pool, fred_observation, clock, pc, supplied,
                    current_rate, batch_size, limit, localVars, ret, failures,
                    ingests, hist >>

\* ------------------------------------------------------------------ Next
TaggerStep(r) ==
    \/ RefreshRate(r)
    \/ CountPools(r)
    \/ LoopExit(r)
    \/ FetchBatch(r)
    \/ ComputeBatch(r)
    \/ ExecuteUpdate(r)
    \/ CommitBatch(r)

\* the batch loop against the pool store: calls with every batch size and
\* limit, persistence failures and the issuance parser, the rate source idle
Next ==
    \/ \E r \in SingleWriter, b \in BatchSizes, l \in Limits : StartCall(r, b, l)
    \/ \E r \in SingleWriter : TaggerStep(r)
    \/ \E r \in SingleWriter : PersistRaise(r)
    \/ \E p \in PoolIds, w \in WacValues : IssuanceUpsert(p, w)

Spec == Init /\ [][Next]_vars

FairSpec == Spec /\ \A r \in SingleWriter : WF_vars(TaggerStep(r))

\* the run against a changing rate source: unlimited calls of batch size 1,
\* the FRED ingestor and the relation the tagger queries both moving
NextRate ==
    \/ \E r \in SingleWriter : StartCall(r, 1, None)
    \/ \E r \in SingleWriter : TaggerStep(r)
    \/ \E d \in Dates, v \in RateValues : insert_observations(d, v)
    \/ \E d \in Dates, v \in RateValues : SourceLoad(d, v)
    \/ \E a \in BOOLEAN : SourceAvailability(a)

SpecRate == InitRate /\ [][NextRate]_vars


\* two taggers, each making one unlimited call against the same two pools;
\* no lock, version column or claim marker orders them
InitConc ==
    InitWith({[p \in PoolIds |-> IF p <= 2 THEN NewPool(Some(700)) ELSE AbsentPool]})

NextConc ==
    \/ \E r \in Taggers, b \in BatchSizes :
          hist[r].call = 0 /\ StartCall(r, b, None)
    \/ \E r \in Taggers : TaggerStep(r)

SpecConc == InitConc /\ [][NextConc]_vars

\* --------------------------------------------------- generate_all_tags alone
RocketMortgage == <<"R", "o", "c", "k", "e", "t", " ",
                    "M", "o", "r", "t", "g", "a", "g", "e">>
WellsFargo     == <<"W", "e", "l", "l", "s", " ", "F", "a", "r", "g", "o">>

LoanSizes  == {None} \cup {Some(x) : x \in {85000, 110000, 125000, 150000, 175000,
                                            200000, 225000, 300000, 766550, 900000}}
FicoValues == {None} \cup {Some(x) : x \in {650, 670, 700, 720, 770, 800}}
LtvValues  == {None} \cup {Some(x) : x \in {60, 70, 80, 90, 95, 97}}
WalaValues == {None} \cup {Some(x) : x \in {-24, 6, 12, 24, 36, 48, 120}}
StateValues == {<<None, None>>, <<Some("NY"), Some(35)>>,
                <<Some("CA"), Some(35)>>, <<Some("OH"), Some(22)>>}
ServicerNames == {None, Some(RocketMortgage), Some(WellsFargo)}
FactorValues == {None} \cup {Some(x) : x \in {0, 85, 90, 100}}
CouponValues == {None} \cup {Some(x) : x \in {500, 550, 600, 650, 750}}
MarketRates  == {650, 700}

RocketUpper == <<"R", "O", "C", "K", "E", "T", " ", "M", "O", "R", "T", "G",
                 "A", "G", "E", " ", "L", "L", "C">>
ChaseHome == <<"C", "h", "a", "s", "e", " ", "H", "o", "m", "e", " ", "F",
               "i", "n", "a", "n", "c", "e">>
UsBankUpper == <<"U", "S", " ", "B", "A", "N", "K", " ", "N", "A">>
QuickenViaCenlar == <<"Q", "u", "i", "c", "k", "e", "n", " ", "v", "i", "a", " ",
                      "C", "e", "n", "l", "a", "r">>
CenlarForQuicken == <<"C", "e", "n", "l", "a", "r", " ", "f", "o", "r", " ", "Q",
                      "u", "i", "c", "k", "e", "n">>
Flagstar == <<"F", "l", "a", "g", "s", "t", "a", "r", " ", "B", "a", "n",
              "k">>

\* dominant states of every friction set, flag and region and of none, in
\* either case, at shares around the thresholds 20, 25 and 30
StateCodes == {"NY", "ny", "CA", "ca", "TX", "FL", "WA", "AZ", "OH", "oh",
               "MI", "NJ", "CO", "KS", ""}
ShareValues == {10, 19, 20, 24, 25, 29, 30, 35}

StateGrid ==
    {PoolData(1, None, None, None, None, None, s, x, None, None) :
        s \in {None} \cup {Some(c) : c \in StateCodes},
        x \in {None} \cup {Some(v) : v \in ShareValues}}

\* servicer names naming a fast servicer, a slow one, both in either order,
\* neither, in either case, and the empty name
ServicerGrid ==
    {PoolData(1, None, None, None, None, None, None, None, n, None) :
        n \in {None, Some(<<>>), Some(RocketMortgage), Some(WellsFargo),
               Some(RocketUpper), Some(ChaseHome), Some(UsBankUpper),
               Some(QuickenViaCenlar), Some(CenlarForQuicken), Some(Flagstar)}}

\* every combination of the classified attributes, the factor and the coupon
\* missing
ClassGrid ==
    {PoolData(1, l, f, v, a, None, s[1], s[2], n, None) :
        l \in LoanSizes, f \in FicoValues, v \in LtvValues, a \in WalaValues,
        s \in StateValues, n \in ServicerNames}

\* every combination of age, factor and coupon over the corner profiles
MetricGrid ==
    {PoolData(1, l, f, v, a, c, s[1], s[2], n, x) :
        l \in {Some(85000), Some(300000), Some(766550), Some(900000)},
        f \in {Some(650), Some(720), Some(800)}, v \in {Some(80), Some(97)},
        a \in WalaValues, c \in CouponValues,
        s \in {<<None, None>>, <<Some("NY"), Some(35)>>},
        n \in ServicerNames, x \in FactorValues}

InitTags ==
    /\ InitStore([PoolIds -> {AbsentPool}])
    /\ \A r \in Taggers : supplied[r] = None
    /\ \/ pool_data \in StateGrid \cup ServicerGrid /\ market_rate = CtorDefaultRate
       \/ pool_data \in ClassGrid /\ market_rate = CtorDefaultRate
       \/ pool_data \in MetricGrid /\ market_rate \in MarketRates
    /\ tag_set = None

\* tags = self.generate_all_tags(pool) on a tagger whose current_rate is
\* market_rate
GenerateTags ==
    /\ tag_set = None
    /\ \E t \in generate_all_tags(pool_data, market_rate) : tag_set' = Some(t)
    /\ UNCHANGED << storeVars, pc, supplied, current_rate, batch_size, limit,
                    localVars, ret, failures, ingests, hist, pool_data,
                    market_rate >>

NextTags == GenerateTags

SpecTags == InitTags /\ [][NextTags]_vars

\* ================================================================ claims
Running == {"rate", "count", "loop", "compute", "persist"}

ExpectedRefi(wac, rate) ==
    IF wac = None THEN 0 ELSE ((Val(wac) - rate) * 100) \div Scale

\* C1: with no limit, no persistence failure and no other writer, the first
\* tag_all_pools call over N untagged pools returns N and leaves no pool
\* untagged, and the call that follows it returns 0.
C1_TwoRunsTagAll ==
    \A r \in SingleWriter :
        ( /\ pc[r] = "done"
          /\ failures = 0 /\ ingests = 0
          /\ limit[r] = None /\ hist[r].prev.limit = None )
        => /\ hist[r].call = 1 =>
                (ret[r] = Some(hist[r].n0) /\ Untagged(dim_pool) = {})
           /\ hist[r].call = 2 => ret[r] = Some(0)

\* C2: a call with limit L sets the staleness marker of at most L pools and
\* returns a count of at most L.
C2_LimitCaps ==
    \A r \in SingleWriter :
        limit[r] # None =>
            /\ Cardinality(hist[r].committed) <= Val(limit[r])
            /\ pc[r] = "done" => Val(ret[r]) <= Val(limit[r])

\* C3: when PERSIST of a batch raises, the call ends raised with nothing
\* returned, every pool of the earlier batches is tagged, and every other
\* pool (the failing batch included) has the marker and tags it had when the
\* call started.
C3_FailedBatchAtomic ==
    \A r \in SingleWriter :
        pc[r] = "raised" =>
            /\ ret[r] = None
            /\ processed[r] = Cardinality(hist[r].committed)
            /\ \A p \in hist[r].committed :
                 dim_pool[p].tags_updated_at # None /\ dim_pool[p].tags # None
            /\ \A p \in PoolIds \ hist[r].committed :
                 /\ dim_pool[p].tags_updated_at = hist[r].start[p].tags_updated_at
                 /\ dim_pool[p].tags = hist[r].start[p].tags
            /\ \A i \in DOMAIN rows[r] :
                 /\ rows[r][i].pool_id \notin hist[r].committed
                 /\ dim_pool[rows[r][i].pool_id].tags_updated_at = None

\* the second batch of a call failing after its UPDATE was executed
C3_Witness ==
    \E r \in SingleWriter :
        /\ pc[r] = "raised"
        /\ hist[r].committed # {}
        /\ rows[r] # <<>>
        /\ hist[r].failed_at >= 1

\* C4: after a call aborted by a persistence failure, one further call with
\* the same batch size, no limit, no failure and no other writer leaves every
\* pool tagged.
C4_ResumeTagsAll ==
    \A r \in SingleWriter :
        ( /\ pc[r] = "done"
          /\ hist[r].prev.outcome = "raised"
          /\ hist[r].prev.batch_size = batch_size[r]
          /\ limit[r] = None
          /\ hist[r].quiet )
        => Untagged(dim_pool) = {}

\* C5: a pool whose marker is set keeps its marker and tags in every step
\* (tagger or issuance upsert), and no FETCH_BATCH selects it.
C5_TaggedPoolStaysTagged ==
    [][ \A p \in PoolIds :
          dim_pool[p].tags_updated_at # None =>
            /\ dim_pool'[p].tags_updated_at = dim_pool[p].tags_updated_at
            /\ dim_pool'[p].tags = dim_pool[p].tags
            /\ \A r \in SingleWriter :
                 (pc[r] = "loop" /\ pc'[r] = "compute") =>
                    \A i \in DOMAIN rows'[r] : rows'[r][i].pool_id # p ]_vars

\* a tagged pool whose coupon the parser changed afterwards (its stored
\* incentive is that of coupon 7.0), with a second call completed
C5_Witness ==
    \E p \in PoolIds, r \in SingleWriter :
        /\ dim_pool[p].tags_updated_at # None
        /\ dim_pool[p].wac = Some(600)
        /\ Val(dim_pool[p].tags).refi_incentive_bps = 50
        /\ hist[r].call = 2
        /\ pc[r] = "done"

\* C6: every call reaches DONE or raises; a FETCH_BATCH that returns zero
\* rows ends the loop at once, and every iteration that does not end it
\* increases the processed count.
C6_RunTerminates ==
    /\ [][ \A r \in SingleWriter :
             /\ ( /\ pc[r] = "loop" /\ processed[r] < total[r]
                  /\ FetchRows(dim_pool, batch_size[r], offset[r]) = <<>>
                  /\ pc'[r] # pc[r] ) => pc'[r] = "done"
             /\ (pc[r] = "persist" /\ pc'[r] = "loop") =>
                    processed'[r] > processed[r] ]_vars
    /\ \A r \in SingleWriter :
          (pc[r] \in Running) ~> (pc[r] \in {"done", "raised"})

\* the loop left by an empty fetch with the total not reached
C6_Witness ==
    \E r \in SingleWriter :
        /\ pc[r] = "done"
        /\ rows[r] = <<>>
        /\ processed[r] < total[r]
        /\ processed[r] > 0

\* C7: within one call the rate is read once, before the first fetch, and
\* every pool the call tags gets refi_incentive_bps = (wac - r) * 100 for
\* that one r (0 for a missing wac), whatever the rate source does meanwhile.
C7_OneRatePerRun ==
    [][ \A r \in SingleWriter :
          /\ pc'[r] \in {"loop", "compute", "persist"} => hist'[r].reads = 1
          /\ (pc[r] = "persist" /\ pc'[r] = "loop") =>
                \A i \in DOMAIN rows[r] :
                    /\ dim_pool'[rows[r][i].pool_id].tags # None
                    /\ Val(dim_pool'[rows[r][i].pool_id].tags).refi_incentive_bps
                         = ExpectedRefi(rows[r][i].wac, hist[r].rate_read) ]_vars

\* the second batch of a call about to be written while the rate source no
\* longer gives the rate the call read
C7_Witness ==
    \E r \in SingleWriter :
        /\ pc[r] = "persist"
        /\ hist[r].committed # {}
        /\ txn[r] = Len(updates[r])
        /\ get_current_mortgage_rate(fred_observations) # hist[r].rate_read

\* C8: when the lookup raises or finds no row, the call uses the rate the
\* caller supplied, and the default 6.5 only when none was supplied.
C8_CallerRateIsFallback ==
    \A r \in SingleWriter :
        (pc[r] \in (Running \ {"rate"}) /\ hist[r].lookup \in {"exception", "no_row"})
        => current_rate[r] = IF supplied[r] # None THEN Val(supplied[r])
                             ELSE FallbackRate

\* C9: whatever the lookup meets (exception, no row, null value), the step
\* after it is the count of the pools, never a raise, and the rate in use is
\* then a fallback rate.
C9_LookupNeverAborts ==
    [][ \A r \in SingleWriter :
          (pc[r] = "rate" /\ pc'[r] # "rate") =>
             /\ pc'[r] = "count"
             /\ LookupOutcome(fred_observations) # "value" =>
                   current_rate'[r] \in {FallbackRate, CtorDefaultRate} ]_vars

C9_Witness ==
    \E r \in SingleWriter :
        /\ pc[r] = "compute"
        /\ hist[r].lookup = "null_value"

\* C10: when the relation the FRED ingestor writes holds a MORTGAGE30US
\* observation with a value, the rate a call reads is the value of the
\* observation with the latest date.
C10_RateIsLatestIngested ==
    [][ \A r \in SingleWriter :
          ( /\ pc[r] = "rate" /\ pc'[r] = "count"
            /\ \E o \in fred_observation : o.value # None )
          => Some(current_rate'[r]) = Val(LatestRow(fred_observation)).value ]_vars

\* C11: two interleaved calls take no notice of each other: every commit of
\* a batch writes the tags and the marker of each of its pools, whether or
\* not the other call tagged the pool meanwhile, and counts the whole batch;
\* neither call raises.  (Both calls then count a pool they both fetched.)
C11_LastWriterWins ==
    /\ [][ \A r \in Taggers :
             (pc[r] = "persist" /\ pc'[r] = "loop") =>
                /\ \A i \in DOMAIN updates[r] :
                     /\ dim_pool'[updates[r][i].pool_id].tags
                          = Some(updates[r][i].tags)
                     /\ dim_pool'[updates[r][i].pool_id].tags_updated_at
                          = Some(txn_now[r])
                /\ processed'[r] = processed[r] + Len(rows[r]) ]_vars
    /\ [](\A r \in Taggers : pc[r] # "raised")

\* both calls done, a pool committed by both carrying the marker of the one
\* whose transaction is the later, and the returned counts summing to more
\* than the pools tagged
C11_Witness ==
    /\ \A r \in Taggers : pc[r] = "done"
    /\ \E p \in hist[1].committed \cap hist[2].committed :
          dim_pool[p].tags_updated_at = Some(Max(txn_now[1], txn_now[2]))
    /\ Val(ret[1]) + Val(ret[2])
          > Cardinality({p \in PoolIds : dim_pool[p].tags_updated_at # None})

\* the pool of a stored row with every stored attribute, the factor included
StoredPool(store, p) ==
    PoolData(p, store[p].avg_loan_size, store[p].avg_fico, store[p].avg_ltv,
             store[p].wala, store[p].wac, store[p].top_state,
             store[p].top_state_pct, store[p].servicer_name, store[p].factor)

\* C12: the tag set a call persists for a pool is generate_all_tags of the
\* pool's stored attributes, its stored factor among them, at the rate of
\* the call.
C12_TagsFromStoredFactor ==
    [][ \A r \in SingleWriter :
          (pc[r] = "persist" /\ pc'[r] = "loop") =>
             \A i \in DOMAIN rows[r] :
                \E t \in generate_all_tags(StoredPool(dim_pool, rows[r][i].pool_id),
                                            current_rate[r]) :
                    dim_pool'[rows[r][i].pool_id].tags = Some(t) ]_vars

\* C13: for every pool and rate, each of composite_prepay_score,
\* bull_scenario_score, bear_scenario_score and neutral_scenario_score that
\* generate_all_tags returns lies in [0, 100] (0..1000 tenths).
C13_CompositesInRange ==
    tag_set # None =>
        /\ Val(tag_set).composite_prepay_score \in 0..1000
        /\ Val(tag_set).bull_scenario_score \in 0..1000
        /\ Val(tag_set).bear_scenario_score \in 0..1000
        /\ Val(tag_set).neutral_scenario_score \in 0..1000

\* C14: for every pool, burnout_score (in sixtieths), contraction_risk_score
\* and extension_risk_score (in tenths) lie in [0, 100].
C14_RiskScoresClamped ==
    tag_set # None =>
        /\ Val(tag_set).burnout_score \in 0..(100 * 60)
        /\ Val(tag_set).contraction_risk_score \in 0..1000
        /\ Val(tag_set).extension_risk_score \in 0..1000

\* C15: for every pool the stored convexity_score is premium_cpr_mult /
\* discount_cpr_mult of the stored multipliers to within half a thousandth,
\* it is positive, and the discount multiplier is positive (the floor 0.01
\* is never what divides).
C15_ConvexityIsRatio ==
    tag_set # None =>
        LET t == Val(tag_set)
            diff == t.convexity_score * t.discount_cpr_mult
                      - t.premium_cpr_mult * 1000
        IN  /\ t.discount_cpr_mult > 0
            /\ t.convexity_score > 0
            /\ 2 * (IF diff >= 0 THEN diff ELSE -diff) <= t.discount_cpr_mult

\* the pool of the largest ratio: premium 1.417 over discount 0.476
C15_Witness ==
    /\ tag_set # None
    /\ Val(tag_set).premium_cpr_mult = 1417
    /\ Val(tag_set).discount_cpr_mult = 476
    /\ Val(tag_set).convexity_score = 2977

TagKeys == {"loan_balance_tier", "fico_bucket", "ltv_bucket", "seasoning_stage",
            "state_prepay_friction", "servicer_prepay_risk",
            "geo_concentration_tag", "refi_incentive_bps", "burnout_score",
            "premium_cpr_mult", "discount_cpr_mult", "convexity_score",
            "s_curve_position", "contraction_risk_score", "extension_risk_score",
            "behavior_tags", "composite_prepay_score", "bull_scenario_score",
            "bear_scenario_score", "neutral_scenario_score"}

\* C16: generate_all_tags of the pool whose optional attributes are all null
\* returns, at every rate, a tag set with all twenty keys and the defaults
\* STD, FICO_GOOD, LTV_STANDARD, FULLY_SEASONED, MODERATE_FRICTION, NEUTRAL
\* and DIVERSIFIED.
C16_NullPoolDefaults ==
    /\ generate_all_tags(NullPool, market_rate) # {}
    /\ (tag_set # None /\ pool_data = NullPool) =>
          LET t == Val(tag_set)
          IN  /\ DOMAIN t = TagKeys
              /\ t.loan_balance_tier = "STD"
              /\ t.fico_bucket = "FICO_GOOD"
              /\ t.ltv_bucket = "LTV_STANDARD"
              /\ t.seasoning_stage = "FULLY_SEASONED"
              /\ t.state_prepay_friction = "MODERATE_FRICTION"
              /\ t.servicer_prepay_risk = "NEUTRAL"
              /\ t.geo_concentration_tag = <<"DIVERSIFIED">>

\* the all-null pool tagged
C16_Witness ==
    /\ pool_data = NullPool
    /\ tag_set # None
    /\ Val(tag_set).refi_incentive_bps = 0

\* the enumerations of the eight categorical tags
TierNames      == {"LLB1", "LLB2", "LLB3", "LLB4", "LLB5", "LLB6", "LLB7",
                   "MLB", "STD", "JUMBO"}
FicoBuckets    == {"FICO_LOW", "FICO_SUBPRIME", "FICO_FAIR", "FICO_GOOD",
                   "FICO_EXCELLENT", "FICO_SUPER"}
LtvBuckets     == {"LTV_LOW", "LTV_MOD", "LTV_STANDARD", "LTV_HIGH",
                   "LTV_VERY_HIGH", "LTV_EXTREME"}
SeasoningStages == {"NEW_PRODUCTION", "RAMPING", "SEASONED", "FULLY_SEASONED",
                    "WELL_SEASONED", "BURNED_OUT"}
FrictionLevels == {"HIGH_FRICTION", "MODERATE_FRICTION", "LOW_FRICTION"}
ServicerClasses == {"PREPAY_PROTECTED", "NEUTRAL", "PREPAY_EXPOSED"}
SCurvePositions == {"LEFT_TAIL", "LEFT_SHOULDER", "INFLECTION", "RIGHT_SHOULDER",
                    "RIGHT_TAIL"}
GeoFlags       == {"DIVERSIFIED", "CA_HEAVY", "TX_HEAVY", "FL_HEAVY", "NY_HEAVY",
                   "COASTAL", "SUNBELT", "MIDWEST"}

IsGeoTag(g) ==
    \/ Len(g) = 1 /\ g[1] \in GeoFlags
    \/ Len(g) = 2 /\ g[2] = "_CONCENTRATED"

\* C17: for every pool each of the eight categorical tags is present and
\* belongs to its enumeration.
C17_CategoricalInEnumeration ==
    tag_set # None =>
        LET t == Val(tag_set)
        IN  /\ {"loan_balance_tier", "fico_bucket", "ltv_bucket",
                "seasoning_stage", "state_prepay_friction",
                "servicer_prepay_risk", "s_curve_position",
                "geo_concentration_tag"} \subseteq DOMAIN t
            /\ t.loan_balance_tier \in TierNames
            /\ t.fico_bucket \in FicoBuckets
            /\ t.ltv_bucket \in LtvBuckets
            /\ t.seasoning_stage \in SeasoningStages
            /\ t.state_prepay_friction \in FrictionLevels
            /\ t.servicer_prepay_risk \in ServicerClasses
            /\ t.s_curve_position \in SCurvePositions
            /\ IsGeoTag(t.geo_concentration_tag)

\* a pool above every threshold, its state concentrated but in no flag or
\* region
C17_Witness ==
    /\ tag_set # None
    /\ Val(tag_set).loan_balance_tier = "JUMBO"
    /\ Val(tag_set).ltv_bucket = "LTV_EXTREME"
    /\ Val(tag_set).fico_bucket = "FICO_SUPER"
    /\ Val(tag_set).seasoning_stage = "BURNED_OUT"
    /\ Val(tag_set).geo_concentration_tag = <<"OH", "_CONCENTRATED">>

DefinedBehaviors == {"prepay_protected", "prepay_exposed", "positive_convexity",
                     "negative_convexity", "burnout_candidate", "extension_risk"}

\* FICO 720, LTV 80, balance 300000, no servicer, no dominant state, age 24,
\* factor 0.90, coupon 6.50
AveragePool ==
    PoolData(1, Some(300000), Some(720), Some(80), Some(24), Some(650),
             None, None, None, Some(90))

\* C18: the keys of behavior_tags are among the six defined names for every
\* pool, and the average pool whose coupon equals the market rate has none.
C18_BehaviorKeys ==
    tag_set # None =>
        /\ DOMAIN Val(tag_set).behavior_tags \subseteq DefinedBehaviors
        /\ (pool_data = AveragePool /\ market_rate = Val(AveragePool.wac)) =>
              DOMAIN Val(tag_set).behavior_tags = {}

\* the average pool tagged at the rate of its coupon
C18_Witness ==
    /\ tag_set # None
    /\ pool_data = AveragePool
    /\ market_rate = 650
    /\ Val(tag_set).refi_incentive_bps = 0

\* the pool with LLB1 balance, a protected servicer, low FICO and a
\* high-friction dominant state, its age in the well-seasoned range
IsProtectedProfile(p) ==
    /\ classify_loan_balance_tier(p.avg_loan_size) = "LLB1"
    /\ classify_servicer_prepay_risk(p.servicer_name) = "PREPAY_PROTECTED"
    /\ classify_fico_bucket(p.avg_fico) = "FICO_LOW"
    /\ classify_state_friction(p.top_state, p.top_state_pct) = "HIGH_FRICTION"
    /\ classify_seasoning_stage(p.wala) = "WELL_SEASONED"

\* the otherwise-identical pools with STD balance, an exposed servicer, high
\* FICO and no dominant state
ExposedTwins(p) ==
    {[p EXCEPT !.avg_loan_size = Some(ConformingLimit),
               !.servicer_name = Some(RocketMortgage),
               !.avg_fico = f, !.top_state = None, !.top_state_pct = None] :
        f \in {Some(770), Some(800)}}

\* C19: at every shared age, factor, coupon, LTV and rate the protected
\* profile gets a strictly higher bull_scenario_score than its exposed twin.
C19_BullFavoursProtected ==
    (tag_set # None /\ IsProtectedProfile(pool_data)) =>
        \A q \in ExposedTwins(pool_data) :
            \A t \in generate_all_tags(q, market_rate) :
                /\ t.loan_balance_tier = "STD"
                /\ t.servicer_prepay_risk = "PREPAY_EXPOSED"
                /\ Val(tag_set).bull_scenario_score > t.bull_scenario_score

\* the protected profile tagged in the money, where burnout weighs most
C19_Witness ==
    /\ tag_set # None
    /\ IsProtectedProfile(pool_data)
    /\ pool_data.factor = Some(90)
    /\ Val(tag_set).refi_incentive_bps = 100


\* loan sizes at and just above every bracket edge
ProbeSizes ==
    {Some(x) : x \in {1, 85000, 85001, 110000, 110001, 125000, 125001, 150000,
                      150001, 175000, 175001, 200000, 200001, 225000, 225001,
                      300000, 300001, 766550, 766551, 900000}}

\* C21: for loan sizes L1 <= L2 the tier of L1 has an LLB_SCORES entry at
\* least that of the tier of L2: the tier a pool was given scores no higher
\* than the tier of any smaller size and no lower than that of any larger one.
C21_LowerBalanceHigherScore ==
    (tag_set # None /\ pool_data.avg_loan_size # None) =>
        \A l \in ProbeSizes :
            /\ Val(l) <= Val(pool_data.avg_loan_size) =>
                  LLB_SCORES[classify_loan_balance_tier(l)]
                     >= LLB_SCORES[Val(tag_set).loan_balance_tier]
            /\ Val(pool_data.avg_loan_size) <= Val(l) =>
                  LLB_SCORES[Val(tag_set).loan_balance_tier]
                     >= LLB_SCORES[classify_loan_balance_tier(l)]

\* a pool at the top of the second bracket, tagged LLB2, with sizes of the
\* first bracket below it and of every other bracket above it
C21_Witness ==
    /\ tag_set # None
    /\ pool_data.avg_loan_size = Some(110000)
    /\ Val(tag_set).loan_balance_tier = "LLB2"
    /\ \E l \in ProbeSizes : classify_loan_balance_tier(l) = "LLB1"
    /\ \E l \in ProbeSizes : classify_loan_balance_tier(l) = "JUMBO"


\* the tag sets one computation can give pool p as it is stored, at any
\* coupon the pool can have had when fetched and any rate a tagger can hold
OneComputation(store, p) ==
    UNION {generate_all_tags(
               PoolData(p, store[p].avg_loan_size, store[p].avg_fico,
                        store[p].avg_ltv, store[p].wala, w, store[p].top_state,
                        store[p].top_state_pct, store[p].servicer_name, None),
               rate) :
           w \in WacValues,
           rate \in {FallbackRate, CtorDefaultRate}
                      \cup {Val(c) : c \in (CallerRates \cup RateValues) \ {None}}}

\* C22: in every state of the pool store a pool has tag columns exactly when
\* its marker is set, and then it has all twenty of them, they are the result
\* of one generate_all_tags computation, and the marker is the time of a
\* transaction already begun.
C22_MarkerMeansWholeTagSet ==
    \A p \in PoolIds :
        dim_pool[p].present =>
            /\ (dim_pool[p].tags = None) <=> (dim_pool[p].tags_updated_at = None)
            /\ dim_pool[p].tags # None =>
                  /\ DOMAIN Val(dim_pool[p].tags) = TagKeys
                  /\ Val(dim_pool[p].tags) \in OneComputation(dim_pool, p)
                  /\ Val(dim_pool[p].tags_updated_at) < clock

\* a committed pool beside a pool whose transaction was rolled back after
\* its UPDATE had been executed
C22_Witness ==
    /\ \E p \in PoolIds : dim_pool[p].present /\ dim_pool[p].tags_updated_at # None
    /\ \E q \in PoolIds : dim_pool[q].present /\ dim_pool[q].tags_updated_at = None
    /\ \E r \in SingleWriter : pc[r] = "raised" /\ hist[r].failed_at > 0


\* C23: the friction tag is HIGH_FRICTION exactly when the dominant state is
\* a high-friction state with a share of 30 or more, LOW_FRICTION exactly
\* when it is a low-friction state with a share of 30 or more, and
\* MODERATE_FRICTION otherwise; a share below 30 gives MODERATE_FRICTION
\* whatever the state.
C23_FrictionThresholds ==
    tag_set # None =>
        LET s == pool_data.top_state
            x == pool_data.top_state_pct
            f == Val(tag_set).state_prepay_friction
            known == s # None /\ x # None
        IN  /\ f = "HIGH_FRICTION" <=>
                  (known /\ upper(Val(s)) \in HIGH_FRICTION_STATES /\ Val(x) >= 30)
            /\ f = "LOW_FRICTION" <=>
                  (known /\ upper(Val(s)) \in LOW_FRICTION_STATES /\ Val(x) >= 30)
            /\ f \in {"HIGH_FRICTION", "LOW_FRICTION", "MODERATE_FRICTION"}
            /\ (x # None /\ Val(x) < 30) => f = "MODERATE_FRICTION"

\* a high-friction state at a share inside [25, 30)
C23_Witness ==
    /\ tag_set # None
    /\ pool_data.top_state = Some("NJ")
    /\ pool_data.top_state_pct = Some(25)
    /\ Val(tag_set).state_prepay_friction = "MODERATE_FRICTION"


\* the name, in whatever case, contains a member of the set
Names(servicer_name, S) ==
    /\ servicer_name # None
    /\ LET low == lower(Val(servicer_name))
       IN  \E s \in S : Contains(low, s)

\* C24: a name containing a fast-servicer substring is PREPAY_EXPOSED even
\* when it also contains a slow-servicer substring; PREPAY_PROTECTED is
\* returned exactly when a slow substring matches and no fast one does; a
\* missing or empty name is NEUTRAL; and the case of the name does not matter
\* (the upper-case names classify as their mixed-case forms do).
C24_FastSetFirst ==
    tag_set # None =>
        LET n == pool_data.servicer_name
            r == Val(tag_set).servicer_prepay_risk
            fast == Names(n, FAST_SERVICERS)
            slow == Names(n, SLOW_SERVICERS)
        IN  /\ fast => r = "PREPAY_EXPOSED"
            /\ r = "PREPAY_PROTECTED" <=> (slow /\ ~fast)
            /\ (n = None \/ Val(n) = <<>>) => r = "NEUTRAL"
            /\ n = Some(RocketUpper) => r = "PREPAY_EXPOSED"
            /\ n = Some(UsBankUpper) => r = "PREPAY_PROTECTED"
            /\ n = Some(Flagstar) => r = "NEUTRAL"

\* a name whose slow substring comes first and whose fast substring follows
C24_Witness ==
    /\ tag_set # None
    /\ pool_data.servicer_name = Some(CenlarForQuicken)
    /\ Names(pool_data.servicer_name, SLOW_SERVICERS)
    /\ Val(tag_set).servicer_prepay_risk = "PREPAY_EXPOSED"


\* the state-specific flag a state and share earn, None if they earn none
HeavyFlag(st, x) ==
    IF (st \in {"CA", "TX", "FL"} /\ x >= 30) \/ (st = "NY" /\ x >= 25)
    THEN Some(CASE st = "CA" -> "CA_HEAVY" [] st = "TX" -> "TX_HEAVY"
                [] st = "FL" -> "FL_HEAVY" [] OTHER -> "NY_HEAVY")
    ELSE None

\* the first regional grouping, in the order COASTAL, SUNBELT, MIDWEST, a
\* state belongs to at a share of 25 or more, None if there is none
Region(st, x) ==
    IF x < 25 THEN None
    ELSE IF st \in {"CA", "FL", "NY", "WA", "OR", "MA"} THEN Some("COASTAL")
    ELSE IF st \in {"TX", "FL", "AZ", "NV", "GA"} THEN Some("SUNBELT")
    ELSE IF st \in {"OH", "MI", "IL", "IN", "WI"} THEN Some("MIDWEST")
    ELSE None

\* C25: a state-specific heavy flag (CA, TX, FL at a share of 30 or more, NY
\* at 25 or more) is the tag whenever it applies, whatever region the state
\* belongs to; failing that, the first regional grouping that applies is the
\* tag; <STATE>_CONCENTRATED is the tag only when neither applies; and a
\* share below 20 gives DIVERSIFIED for every state.
C25_GeoPriority ==
    (tag_set # None /\ ~Falsy(pool_data.top_state)
       /\ pool_data.top_state_pct # None) =>
        LET st == upper(Val(pool_data.top_state))
            x  == Val(pool_data.top_state_pct)
            g  == Val(tag_set).geo_concentration_tag
        IN  /\ HeavyFlag(st, x) # None => g = <<Val(HeavyFlag(st, x))>>
            /\ (HeavyFlag(st, x) = None /\ Region(st, x) # None) =>
                  g = <<Val(Region(st, x))>>
            /\ Len(g) = 2 => (HeavyFlag(st, x) = None /\ Region(st, x) = None)
            /\ x < 20 => g = <<"DIVERSIFIED">>

\* Florida, in both the coastal and the sunbelt list, flagged FL_HEAVY
C25_Witness ==
    /\ tag_set # None
    /\ pool_data.top_state = Some("FL")
    /\ pool_data.top_state_pct = Some(30)
    /\ Region("FL", 30) = Some("COASTAL")
    /\ Val(tag_set).geo_concentration_tag = <<"FL_HEAVY">>


\* the out-of-the-money adjustment with both of its edges included
OtmInclusive(refi_incentive_bps) ==
    IF refi_incentive_bps <= -100 THEN 20
    ELSE IF refi_incentive_bps <= -50 THEN 10
    ELSE 0

\* C26: the extension risk of a pool exceeds the extension risk the same
\* pool has at a refi incentive of 0 by 20 points when its incentive is -100
\* or less and by 10 points when its incentive is above -100 and at most
\* -50 (and equals it otherwise), wherever neither score is clamped.
C26_OtmAdjustmentInclusive ==
    tag_set # None =>
        LET t == Val(tag_set)
            at_par == calc_extension_risk([t EXCEPT !.refi_incentive_bps = 0],
                                          pool_data)
        IN  (\A e \in at_par : 0 < e /\ e + 200 < 1000) =>
               \E e \in at_par :
                  t.extension_risk_score
                     = e + 10 * OtmInclusive(t.refi_incentive_bps)


\* C27: behavior_tags holds extension_risk exactly when the refi incentive
\* is below -100, the discount multiplier is below 0.85 and the pool's
\* factor is known and above 0.85; a pool whose factor is missing, zero or
\* at most 0.85 does not have the tag.
C27_ExtensionRiskNeedsFactor ==
    tag_set # None =>
        LET t == Val(tag_set)
        IN  ("extension_risk" \in DOMAIN t.behavior_tags) <=>
               /\ t.refi_incentive_bps < -100
               /\ t.discount_cpr_mult < 850
               /\ pool_data.factor # None
               /\ Val(pool_data.factor) > 85


\* C28: a pool tagged prepay_exposed is not tagged prepay_protected, and its
\* protection score is at most 10.
C28_ExposedNotProtected ==
    tag_set # None =>
        LET t == Val(tag_set)
        IN  "prepay_exposed" \in DOMAIN t.behavior_tags =>
               /\ "prepay_protected" \notin DOMAIN t.behavior_tags
               /\ _calc_protection_score(pool_data, t) <= 10

\* an exposed pool in a high-friction state, the one bonus left to it
C28_Witness ==
    /\ tag_set # None
    /\ "prepay_exposed" \in DOMAIN Val(tag_set).behavior_tags
    /\ Val(tag_set).state_prepay_friction = "HIGH_FRICTION"
    /\ _calc_protection_score(pool_data, Val(tag_set)) = 10


\* C29: a pool tagged prepay_exposed is tagged negative_convexity with
\* severity high and not positive_convexity, its convexity score being above
\* 1.25.
C29_ExposedIsNegativelyConvex ==
    tag_set # None =>
        LET t == Val(tag_set)
            b == t.behavior_tags
        IN  "prepay_exposed" \in DOMAIN b =>
               /\ t.convexity_score > 1250
               /\ "negative_convexity" \in DOMAIN b
               /\ b["negative_convexity"].severity = "high"
               /\ "positive_convexity" \notin DOMAIN b

\* the exposed profile with the lowest convexity score: conforming balance,
\* FICO_EXCELLENT, 1.242 / 0.63
C29_Witness ==
    /\ tag_set # None
    /\ "prepay_exposed" \in DOMAIN Val(tag_set).behavior_tags
    /\ Val(tag_set).loan_balance_tier = "STD"
    /\ Val(tag_set).fico_bucket = "FICO_EXCELLENT"
    /\ Val(tag_set).convexity_score = 1971


\* the tag sets of the pool with its factor set to d hundredths
WithFactor(pool, d, rate) ==
    generate_all_tags([pool EXCEPT !.factor = Some(d)], rate)

\* C30: the tag set of a pool whose factor is missing is the tag set the
\* pool has with some one factor value in its place, the same for the
\* burnout score, the extension risk and the extension_risk trigger; and the
\* tag set of a pool whose factor is 0 is the one the number 0 gives, which
\* is that of the factor 0.01 (both at the paydown cap, both below the 0.5
\* and 0.85 thresholds).
C30_OneFactorReading ==
    tag_set # None =>
        /\ pool_data.factor = None =>
              \E d \in 0..100 :
                 /\ calc_burnout_score(pool_data.wala, Some(d),
                                       Val(tag_set).refi_incentive_bps)
                       = Val(tag_set).burnout_score
                 /\ Val(tag_set) \in WithFactor(pool_data, d, market_rate)
        /\ pool_data.factor = Some(0) =>
              Val(tag_set) \in WithFactor(pool_data, 1, market_rate)

====
